---- MODULE Spec2Model ----
(***************************************************************************)
(* A model of signac-flow's compute-environment subsystem:                 *)
(*   flow/environment.py   the registry of ComputeEnvironment classes, the *)
(*                         detection of the present environment, the       *)
(*                         JobScript buffer and the submission protocol;   *)
(*   flow/util/config.py   the lookup of flow configuration values.        *)
(*                                                                         *)
(* Python values are tagged records [t |-> type, v |-> payload] whose      *)
(* payload is always a sequence, so that any two values can be compared.   *)
(* Text written to a job script is a sequence of one-character strings.    *)
(***************************************************************************)
EXTENDS Integers, Sequences, FiniteSets, TLC

VARIABLES registry, nextId, declared, env, script, call, handed, store, cfg

vars == <<registry, nextId, declared, env, script, call, handed, store, cfg>>

(***************************************************************************)
(* Bounds of the model.                                                    *)
(***************************************************************************)
\* user declarations of ComputeEnvironment subclasses after module load
MaxDecl == 2
\* writeline / write_cmd calls made on one script
MaxWrites == 2
\* keyword arguments passed to script()
MaxOpts == 2
\* submit calls on one script
MaxSubmits == 2

(***************************************************************************)
(* Python values.                                                          *)
(***************************************************************************)
None == [t |-> "None", v |-> <<>>]

Str(s) == [t |-> "str", v |-> s]

\* a function or classmethod object, named by its implementation
Method(impl) == [t |-> "method", v |-> <<impl>>]

\* a class of flow.scheduler, referenced but not defined in this module
SchedulerClass(n) == [t |-> "class", v |-> <<n>>]

\* the outcome of an attribute lookup that finds nothing (AttributeError)
Missing == [t |-> "missing", v |-> <<>>]

(***************************************************************************)
(* Class objects.  A class is [id, name, base, dct]: id is the identity of *)
(* the class object (its place in the order of class statements), base the *)
(* name of the class of this module it derives from ("object" for the root *)
(* class), dct the attributes its own body defines.                        *)
(***************************************************************************)
Class(id, name, base, dct) == [id |-> id, name |-> name, base |-> base, dct |-> dct]

\* class ComputeEnvironment: the attributes of its body
ComputeEnvironment ==
    Class(0, "ComputeEnvironment", "object",
          [scheduler        |-> None,
           hostname_pattern |-> None,
           script           |-> Method("ComputeEnvironment.script"),
           is_present       |-> Method("ComputeEnvironment.is_present"),
           get_scheduler    |-> Method("ComputeEnvironment.get_scheduler"),
           submit           |-> Method("ComputeEnvironment.submit"),
           bg               |-> Method("ComputeEnvironment.bg")])

UnknownEnvironment ==
    Class(1, "UnknownEnvironment", "ComputeEnvironment",
          [scheduler_type |-> None,
           is_present     |-> Method("always_present"),
           script         |-> Method("UnknownEnvironment.script")])

TestEnvironment ==
    Class(2, "TestEnvironment", "ComputeEnvironment",
          [scheduler_type |-> SchedulerClass("FakeScheduler"),
           is_present     |-> Method("always_present"),
           script         |-> Method("TestEnvironment.script")])

TorqueEnvironment ==
    Class(3, "TorqueEnvironment", "ComputeEnvironment",
          [scheduler_type |-> SchedulerClass("TorqueScheduler")])

MoabEnvironment ==
    Class(4, "MoabEnvironment", "ComputeEnvironment",
          [scheduler_type |-> SchedulerClass("TorqueScheduler")])

SlurmEnvironment ==
    Class(5, "SlurmEnvironment", "ComputeEnvironment",
          [scheduler_type |-> SchedulerClass("SlurmScheduler")])

\* a class whose body is "pass": no attribute of its own
EmptyDct == [x \in {} |-> None]

CPUEnvironment == Class(6, "CPUEnvironment", "ComputeEnvironment", EmptyDct)

GPUEnvironment == Class(7, "GPUEnvironment", "ComputeEnvironment", EmptyDct)

\* the class statements of flow/environment.py, in the order they execute
ModuleClasses ==
    <<ComputeEnvironment, UnknownEnvironment, TestEnvironment, TorqueEnvironment,
      MoabEnvironment, SlurmEnvironment, CPUEnvironment, GPUEnvironment>>

\* the classes flow/environment.py defines
ProgramClasses == {ModuleClasses[i] : i \in 1..Len(ModuleClasses)}

\* object, the base of the root class
NoBase == [id |-> -1, name |-> "object"]

\* the class object a class derives from
BaseOf(cls) ==
    IF cls.base = "object" THEN NoBase
    ELSE CHOOSE c \in ProgramClasses : c.name = cls.base

\* getattr(cls, attr) along the chain of base classes
RECURSIVE GetAttr(_, _)
GetAttr(cls, attr) ==
    IF cls = NoBase THEN Missing
    ELSE IF attr \in DOMAIN cls.dct THEN cls.dct[attr]
    ELSE GetAttr(BaseOf(cls), attr)

(***************************************************************************)
(* The registry: ComputeEnvironment.registry, an OrderedDict from class    *)
(* name to class, modelled as the sequence of its items in key order.      *)
(* NoRegistry is the state in which no class carries the attribute yet.    *)
(***************************************************************************)
NoRegistry == [created |-> FALSE, items |-> <<>>]

\* cls.registry = OrderedDict()
NewRegistry == [created |-> TRUE, items |-> <<>>]

Item(name, cls) == [name |-> name, cls |-> cls]

Keys(items) == {items[i].name : i \in 1..Len(items)}

\* a mapping in which the first value stored under a key stays
SetItemFirstWins(items, name, cls) ==
    IF name \in Keys(items) THEN items ELSE Append(items, Item(name, cls))

\* a mapping that moves a key stored again to the end
SetItemMoveToEnd(items, name, cls) ==
    Append(SelectSeq(items, LAMBDA it : it.name # name), Item(name, cls))

\* OrderedDict.__setitem__: an existing key keeps its position
SetItem(items, name, cls) ==
    IF name \in Keys(items)
    THEN [i \in 1..Len(items) |->
              IF items[i].name = name THEN Item(name, cls) ELSE items[i]]
    ELSE Append(items, Item(name, cls))

\* a metaclass for which every class, the root class too, has a registry
HasRegistryAlways(reg, cls) == TRUE

\* hasattr(cls, 'registry') while the metaclass initialises cls: the
\* attribute is found on a base class, once the root class has created it
HasRegistry(reg, cls) == BaseOf(cls) # NoBase /\ reg.created

\* ComputeEnvironmentType.__init__(cls, name, bases, dct)
MetaInit(reg, cls) ==
    IF ~HasRegistry(reg, cls) THEN NewRegistry
    ELSE [reg EXCEPT !.items = SetItem(reg.items, cls.name, cls)]

\* the registry after the first n class statements of the module
RECURSIVE LoadModule(_)
LoadModule(n) ==
    IF n = 0 THEN NoRegistry ELSE MetaInit(LoadModule(n - 1), ModuleClasses[n])

(***************************************************************************)
(* Host names and hostname patterns.  A pattern is a sequence of atoms: a  *)
(* literal character, or "." matching any one character.                   *)
(***************************************************************************)
HostNames == {<<"x", "1">>, <<"x", "2">>, <<"y">>}

Patterns == {<<"x">>, <<".", "1">>}

\* re.match(pattern, string) is not None: the pattern matches at the start
\* of the string, and need not reach its end
RECURSIVE re_match(_, _)
re_match(pattern, string) ==
    IF pattern = <<>> THEN TRUE
    ELSE IF string = <<>> THEN FALSE
    ELSE /\ (Head(pattern) = "." \/ Head(pattern) = Head(string))
         /\ re_match(Tail(pattern), Tail(string))

\* an is_present that takes a null pattern to match every host
default_is_present_null_matches(cls, hostname) ==
    LET hostname_pattern == GetAttr(cls, "hostname_pattern")
    IN  IF hostname_pattern = None THEN TRUE
        ELSE re_match(hostname_pattern.v, hostname)

\* ComputeEnvironment.is_present, the default
default_is_present(cls, hostname) ==
    LET hostname_pattern == GetAttr(cls, "hostname_pattern")
    IN  IF hostname_pattern = None THEN FALSE
        ELSE re_match(hostname_pattern.v, hostname)

\* cls.is_present(), dispatched on the implementation the class resolves to
is_present(cls, hostname) ==
    LET impl == GetAttr(cls, "is_present")
    IN  CASE impl = Method("always_present") -> TRUE
          [] OTHER -> default_is_present(cls, hostname)

\* registry.values(), not reversed
ForwardValues(reg) == [i \in 1..Len(reg.items) |-> reg.items[i].cls]

\* reversed(registry.values())
ReversedValues(reg) ==
    [i \in 1..Len(reg.items) |-> reg.items[Len(reg.items) + 1 - i].cls]

\* a scan that returns the first class of seq without asking is_present
FirstRegistered(seq, hostname) == IF seq = <<>> THEN UnknownEnvironment ELSE Head(seq)

\* the first class of seq that is present, UnknownEnvironment if none
RECURSIVE FirstPresent(_, _)
FirstPresent(seq, hostname) ==
    IF seq = <<>> THEN UnknownEnvironment
    ELSE IF is_present(Head(seq), hostname) THEN Head(seq)
    ELSE FirstPresent(Tail(seq), hostname)

\* get_environment(test): the parameter test is not read by the body
get_environment(reg, test, hostname) == FirstPresent(ReversedValues(reg), hostname)

(***************************************************************************)
(* Declarations made by user code after the module is loaded.  declared is  *)
(* the history of the class statements executed so far, the module's own   *)
(* included, in the order they were executed.                              *)
(***************************************************************************)
UserNames == {"A", "TestEnvironment", "UnknownEnvironment"}

\* the bodies of the user classes considered
UserDcts ==
    {EmptyDct}
    \cup {[hostname_pattern |-> Str(p)] : p \in Patterns}
    \cup {[is_present |-> Method("always_present")]}

\* the classes a user class derives from
UserBases == {"ComputeEnvironment", "TestEnvironment"}

NoCall == [op |-> "none"]

\* no JobScript has been created
NoScript == [open |-> FALSE]

\* no configuration has been loaded
NoStore == [loaded |-> FALSE]

\* the parts of the state a specification does not use
EnvIdle ==
    /\ registry = LoadModule(Len(ModuleClasses))
    /\ nextId = Len(ModuleClasses)
    /\ declared = ModuleClasses
    /\ env = NoCall

ScriptIdle == script = NoScript /\ call = NoCall /\ handed = <<>>

ConfigIdle == store = NoStore /\ cfg = NoCall

\* the state once flow/environment.py has been imported
Init ==
    /\ EnvIdle
    /\ ScriptIdle
    /\ ConfigIdle

\* class <name>(<base>): <dct>   executed by user code
Declare(name, base, dct) ==
    /\ nextId < Len(ModuleClasses) + MaxDecl
    /\ registry' = MetaInit(registry, Class(nextId, name, base, dct))
    /\ nextId' = nextId + 1
    /\ declared' = Append(declared, Class(nextId, name, base, dct))
    /\ UNCHANGED <<env, script, call, handed, store, cfg>>

\* get_environment(test) on a host named hostname
GetEnvironment(test, hostname) ==
    /\ env' = [op |-> "get_environment", test |-> test, hostname |-> hostname,
               seen |-> registry.items,
               result |-> get_environment(registry, test, hostname)]
    /\ UNCHANGED <<registry, nextId, declared, script, call, handed, store, cfg>>

Next ==
    \/ \E name \in UserNames, base \in UserBases, dct \in UserDcts :
           Declare(name, base, dct)
    \/ \E test \in BOOLEAN, hostname \in HostNames : GetEnvironment(test, hostname)

Spec == Init /\ [][Next]_vars

(***************************************************************************)
(* Job scripts.  A JobScript is an io.StringIO: a buffer of characters and *)
(* a cursor; write() stores at the cursor, overwriting what is there, and  *)
(* moves the cursor past what it wrote.  The record of a script also keeps  *)
(* the history of its use: the lines passed to writeline (log), the number *)
(* of writeline and write_cmd calls (writes) and of submit calls (submits).*)
(***************************************************************************)
eol == <<"\n">>

\* JobScript(parent): an empty buffer, the cursor at 0
JobScript(parent) ==
    [open |-> TRUE, parent |-> parent, buf |-> <<>>, pos |-> 0,
     log |-> <<>>, writes |-> 0, submits |-> 0]

\* a write that stores at the cursor and leaves the cursor where it was
write_no_advance(js, s) ==
    [js EXCEPT !.buf = SubSeq(js.buf, 1, js.pos) \o s
                          \o SubSeq(js.buf, js.pos + Len(s) + 1, Len(js.buf))]

\* a write that always stores at the end of the content, as a stream opened
\* for appending does
write_append(js, s) == [js EXCEPT !.buf = js.buf \o s, !.pos = Len(js.buf) + Len(s)]

\* io.StringIO.write(s) on a buffer whose cursor is within the content
write(js, s) ==
    LET past == js.pos + Len(s)
    IN  [js EXCEPT !.buf = SubSeq(js.buf, 1, js.pos) \o s
                            \o SubSeq(js.buf, past + 1, Len(js.buf)),
                   !.pos = past]

\* JobScript.writeline(line)
writeline(js, line) == [write(js, line \o eol) EXCEPT !.log = Append(@, line)]

\* io.StringIO.seek(0)
seek0(js) == [js EXCEPT !.pos = 0]

\* what io.StringIO.read() returns: the content from the cursor on
Readable(js) == SubSeq(js.buf, js.pos + 1, Len(js.buf))

\* str(n) for an int n >= 0
RECURSIVE str_int(_)
str_int(n) ==
    LET d == <<"0", "1", "2", "3", "4", "5", "6", "7", "8", "9">>[(n % 10) + 1]
    IN  IF n < 10 THEN <<d>> ELSE str_int(n \div 10) \o <<d>>

\* ComputeEnvironment.bg(cmd)
bg_cmd(cmd) == cmd \o <<" ", "&">>

\* mpi_cmd(cmd, np) of an environment that defines it: the launcher line of
\* the packaged environments, 'mpirun -np {np} {cmd}'
mpirun_cmd(cmd, np) ==
    <<"m", "p", "i", "r", "u", "n", " ", "-", "n", "p", " ">> \o str_int(np) \o <<" ">> \o cmd

\* a call that returned
Returned(op, args, ret) == [op |-> op, args |-> args, exc |-> "none", ret |-> ret]

\* a call that raised
Raised(op, args, exc) == [op |-> op, args |-> args, exc |-> exc, ret |-> None]

\* JobScript.write_cmd(cmd, np, bg): the script after the call and the
\* exception it ends in ("none" when it returns)
write_cmd(js, cmd, np, bg) ==
    LET mpi == GetAttr(js.parent, "mpi_cmd")
        c1 == IF np > 1 THEN mpirun_cmd(cmd, np) ELSE cmd
        c2 == IF bg THEN bg_cmd(c1) ELSE c1
    IN  IF np > 1 /\ mpi = Missing
        THEN [js |-> js, exc |-> "AttributeError: mpi_cmd"]
        ELSE [js |-> writeline(js, c2), exc |-> "none"]

(***************************************************************************)
(* script() with keyword arguments.  kwargs is a dict in the order the     *)
(* keyword arguments were passed: a sequence of <<key, value>> with        *)
(* distinct keys.                                                          *)
(***************************************************************************)
\* ord(c) for the characters option names are made of
ord(c) == CASE c = "a" -> 97 [] c = "b" -> 98 [] c = "c" -> 99 [] OTHER -> 0

\* s < t for Python strings: lexicographic by code point
RECURSIVE str_lt(_, _)
str_lt(s, t) ==
    IF t = <<>> THEN FALSE
    ELSE IF s = <<>> THEN TRUE
    ELSE IF Head(s) = Head(t) THEN str_lt(Tail(s), Tail(t))
    ELSE ord(Head(s)) < ord(Head(t))

\* insert k into the sorted list l, after the elements not greater than it
RECURSIVE insort(_, _)
insort(l, k) ==
    IF l = <<>> THEN <<k>>
    ELSE IF str_lt(k, Head(l)) THEN <<k>> \o l
    ELSE <<Head(l)>> \o insort(Tail(l), k)

\* list(kwargs): the keys in the order they were passed
RECURSIVE unsorted(_)
unsorted(kwargs) ==
    IF kwargs = <<>> THEN <<>> ELSE <<Head(kwargs)[1]>> \o unsorted(Tail(kwargs))

\* sorted(kwargs): the keys in ascending order
RECURSIVE sorted(_)
sorted(kwargs) ==
    IF kwargs = <<>> THEN <<>>
    ELSE insort(sorted(SubSeq(kwargs, 1, Len(kwargs) - 1)), kwargs[Len(kwargs)][1])

\* kwargs[key]
GetItem(kwargs, key) == kwargs[CHOOSE i \in 1..Len(kwargs) : kwargs[i][1] = key][2]

\* '#TEST {}={}'.format(key, value) for an int value
test_line(key, value) == <<"#", "T", "E", "S", "T", " ">> \o key \o <<"=">> \o str_int(value)

\* for key in keys: js.writeline('#TEST {}={}'.format(key, kwargs[key]))
RECURSIVE write_options(_, _, _)
write_options(js, keys, kwargs) ==
    IF keys = <<>> THEN js
    ELSE write_options(writeline(js, test_line(Head(keys), GetItem(kwargs, Head(keys)))),
                       Tail(keys), kwargs)

\* cls.script() with keyword arguments kwargs, dispatched on the
\* implementation cls resolves to
script_of(cls, kwargs) ==
    IF GetAttr(cls, "script") = Method("TestEnvironment.script")
    THEN write_options(JobScript(cls), sorted(kwargs), kwargs)
    ELSE JobScript(cls)

(***************************************************************************)
(* Submission.  handed lists what the drivers were given: at each call of  *)
(* a driver's submit, the script's cursor, the content a read() returns,   *)
(* the number of writes made to the script so far, and whether the driver  *)
(* read the script.                                                        *)
(***************************************************************************)
MissingScheduler == "AttributeError: You must define a scheduler type for every environment"

\* get_scheduler that catches the AttributeError of a missing scheduler_type
\* but not the TypeError of calling None
has_scheduler_attr(cls) == GetAttr(cls, "scheduler_type") # Missing

\* ComputeEnvironment.get_scheduler(): whether scheduler_type() gives a driver
has_scheduler(cls) ==
    LET scheduler_type == GetAttr(cls, "scheduler_type")
    IN  scheduler_type # Missing /\ scheduler_type # None

\* bool(x) for the values a driver's submit returns
True == [t |-> "bool", v |-> <<"True">>]

False == [t |-> "bool", v |-> <<"False">>]

\* bool(x) for the values a driver's submit returns
truthy(x) == x \notin {None, False, Str(<<>>)}

\* manage.JobStatus.submitted
submitted == [t |-> "JobStatus", v |-> <<"submitted">>]

\* what a driver's submit(script, ...) may do: return a value or raise, after
\* reading the script to its end or without reading it
DriverReturns == {True, False, None, Str(<<"7">>), Str(<<>>)}

DriverOutcomes ==
    [ret : DriverReturns, exc : {"none"}, reads : BOOLEAN]
    \cup [ret : {None}, exc : {"SubmitError"}, reads : BOOLEAN]

\* submit without the rewind
no_rewind(js) == js

\* script.seek(0), the first statement of submit
rewind(js) == seek0(js)

\* the script as the driver leaves it
after_driver(js, d) == IF d.reads THEN [js EXCEPT !.pos = Len(js.buf)] ELSE js

\* submit that reports every driver result as submitted
submit_result_always(ret) == submitted

\* the return value of ComputeEnvironment.submit for a driver result
submit_result(ret) == IF truthy(ret) THEN submitted ELSE None

(***************************************************************************)
(* Inputs of the script operations.                                        *)
(***************************************************************************)
\* a cluster environment as user code declares it: a scheduler inherited
\* from SlurmEnvironment, a hostname pattern and a parallel launcher
UserCluster ==
    Class(8, "A", "SlurmEnvironment",
          [hostname_pattern |-> Str(<<"x">>), mpi_cmd |-> Method("mpirun_cmd")])

\* the classes of the module, the root class included, and a user class
ScriptClasses == ProgramClasses \cup {UserCluster}

OptionKeys == {<<"a">>, <<"b">>, <<"a", "b">>}

OptionValues == {2, 10}

\* the dicts of at most MaxOpts options, in every order of insertion
Kwargs ==
    {kw \in UNION {[1..n -> OptionKeys \X OptionValues] : n \in 0..MaxOpts} :
        \A i, j \in 1..Len(kw) : i # j => kw[i][1] # kw[j][1]}

Lines == {<<>>, <<"l">>}

Cmds == {<<"r">>}

NPs == {1, 2}

\* cls.script(), called with the keyword arguments kwargs; a behaviour
\* follows one script from its creation on
Script(cls, kwargs) ==
    /\ ~script.open
    /\ script' = script_of(cls, kwargs)
    /\ call' = Returned("script", [cls |-> cls, kwargs |-> kwargs], None)
    /\ handed' = <<>>
    /\ UNCHANGED <<registry, nextId, declared, env, store, cfg>>

\* script.writeline(line)
WriteLine(line) ==
    /\ script.open
    /\ script.writes < MaxWrites
    /\ script' = [writeline(script, line) EXCEPT !.writes = @ + 1]
    /\ call' = Returned("writeline", [line |-> line, before |-> script], None)
    /\ UNCHANGED <<registry, nextId, declared, env, handed, store, cfg>>

\* script.write_cmd(cmd, np, bg)
WriteCmd(cmd, np, bg) ==
    /\ script.open
    /\ script.writes < MaxWrites
    /\ LET r == write_cmd(script, cmd, np, bg)
           args == [cmd |-> cmd, np |-> np, bg |-> bg, before |-> script]
       IN  /\ script' = [r.js EXCEPT !.writes = @ + 1]
           /\ call' = IF r.exc = "none" THEN Returned("write_cmd", args, None)
                      ELSE Raised("write_cmd", args, r.exc)
    /\ UNCHANGED <<registry, nextId, declared, env, handed, store, cfg>>

\* cls.submit(script, ...) by the environment that created the script, the
\* driver answering with d
Submit(d) ==
    /\ script.open
    /\ script.submits < MaxSubmits
    /\ LET cls == script.parent
           js == rewind(script)
           args == [cls |-> cls, driver |-> d, handoffs |-> Len(handed), before |-> script]
       IN  IF ~has_scheduler(cls)
           THEN /\ script' = [js EXCEPT !.submits = @ + 1]
                /\ call' = Raised("submit", args, MissingScheduler)
                /\ handed' = handed
           ELSE /\ script' = [after_driver(js, d) EXCEPT !.submits = @ + 1]
                /\ handed' = Append(handed, [pos |-> js.pos, content |-> Readable(js),
                                             writes |-> js.writes, reads |-> d.reads])
                /\ call' = IF d.exc # "none" THEN Raised("submit", args, d.exc)
                           ELSE Returned("submit", args, submit_result(d.ret))
    /\ UNCHANGED <<registry, nextId, declared, env, store, cfg>>

InitScript == EnvIdle /\ ScriptIdle /\ ConfigIdle

NextScript ==
    \/ \E cls \in ScriptClasses, kwargs \in Kwargs : Script(cls, kwargs)
    \/ \E line \in Lines : WriteLine(line)
    \/ \E cmd \in Cmds, np \in NPs, bg \in BOOLEAN : WriteCmd(cmd, np, bg)

\* script assembly: script(), writeline and write_cmd
SpecScript == InitScript /\ [][NextScript]_vars

NextSubmit ==
    \/ \E cls \in ScriptClasses : Script(cls, <<>>)
    \/ \E line \in Lines : WriteLine(line)
    \/ \E d \in DriverOutcomes : Submit(d)

\* submission: script(), writeline and submit
SpecSubmit == InitScript /\ [][NextSubmit]_vars

(***************************************************************************)
(* Configuration.  What config.load_config() returns is a mapping of      *)
(* section names to sections; a section maps keys to values, a value being *)
(* a scalar or a nested section (a namespace).                             *)
(***************************************************************************)
Section(m) == [t |-> "section", v |-> <<m>>]

Items(section) == section.v[1]

EmptyMap == [x \in {} |-> None]

\* _FLOW_CONFIG_DEFAULTS
FLOW_CONFIG_DEFAULTS ==
    [import_packaged_environments      |-> [t |-> "bool", v |-> <<"True">>],
     status_performance_warn_threshold |-> [t |-> "float", v |-> <<"0.2">>],
     show_traceback                    |-> [t |-> "bool", v |-> <<"False">>],
     eligible_jobs_max_lines           |-> [t |-> "int", v |-> <<"10">>],
     status_parallelization            |-> Str(<<"none">>)]

\* _GET_CONFIG_VALUE_NONE, the default that stands for "no default given"
GET_CONFIG_VALUE_NONE == [t |-> "_GetConfigValueNoneType", v |-> <<>>]

\* the outcome of container[key]
Found(val) == [exc |-> "none", val |-> val]

Fails(exc) == [exc |-> exc, val |-> None]

\* container[key] for a section, and for a scalar, which cannot be indexed
Subscript(container, key) ==
    IF container.t # "section" THEN Fails("TypeError")
    ELSE IF key \in DOMAIN Items(container) THEN Found(Items(container)[key])
    ELSE Fails("KeyError")

\* ...[a][b]: the second subscript is reached only if the first succeeds
Then(r, key) == IF r.exc # "none" THEN r ELSE Subscript(r.val, key)

\* the key named without its namespace
config_key_name_no_ns(key, ns) == "flow." \o key

\* the argument of ConfigKeyError: "flow." + k
config_key_name(key, ns) ==
    IF ns = None THEN "flow." \o key ELSE "flow." \o (ns.v[1] \o "." \o key)

\* require_config_value(key, ns, default) on the configuration cfgroot
require_config_value(cfgroot, key, ns, default) ==
    LET flow == Subscript(cfgroot, "flow")
        r == IF ns = None THEN Then(flow, key) ELSE Then(Then(flow, ns.v[1]), key)
    IN  CASE r.exc = "none" -> [exc |-> "none", msg |-> "", ret |-> r.val]
          [] r.exc = "KeyError" ->
                 IF default = GET_CONFIG_VALUE_NONE
                 THEN [exc |-> "ConfigKeyError", msg |-> config_key_name(key, ns),
                       ret |-> None]
                 ELSE [exc |-> "none", msg |-> "", ret |-> default]
          [] OTHER -> [exc |-> r.exc, msg |-> "", ret |-> None]

\* get_config_value that falls back on _FLOW_CONFIG_DEFAULTS
get_config_value_defaults(cfgroot, key, ns, default) ==
    require_config_value(cfgroot, key, ns,
        IF default = None /\ key \in DOMAIN FLOW_CONFIG_DEFAULTS
        THEN FLOW_CONFIG_DEFAULTS[key] ELSE default)

\* get_config_value that does not forward its default
get_config_value_no_default(cfgroot, key, ns, default) ==
    require_config_value(cfgroot, key, ns, GET_CONFIG_VALUE_NONE)

\* get_config_value(key, ns, default)
get_config_value(cfgroot, key, ns, default) ==
    require_config_value(cfgroot, key, ns, default)

\* the keys looked up: the five recognized keys and the name of a namespace
LookupKeys == DOMAIN FLOW_CONFIG_DEFAULTS \cup {"cluster"}

\* the namespaces looked in: none, a namespace, and the name of a scalar
LookupNamespaces == {None, Str(<<"cluster">>), Str(<<"status_parallelization">>)}

CallerDefaults == {None, Str(<<"d">>)}

\* the keys a stored section may hold, each with the value stored under it
StoredKeys == {"status_parallelization", "eligible_jobs_max_lines"}

StoredValue(key) ==
    IF key = "status_parallelization" THEN Str(<<"thread">>) ELSE [t |-> "int", v |-> <<"25">>]

Scalars(keys) == [k \in keys |-> StoredValue(k)]

\* the flow sections considered: scalars, with or without a namespace
FlowSections ==
    {Section(Scalars(top)) : top \in SUBSET StoredKeys}
    \cup {Section(Scalars(top) @@ ("cluster" :> Section(Scalars(inner)))) :
              top \in SUBSET StoredKeys, inner \in SUBSET StoredKeys}

\* the configurations considered: without a flow section, or with one
Stores == {Section(EmptyMap)} \cup {Section("flow" :> f) : f \in FlowSections}

ConfigCall(op, key, ns, default, r) ==
    [op |-> op, key |-> key, ns |-> ns, default |-> default,
     exc |-> r.exc, msg |-> r.msg, ret |-> r.ret]

\* require_config_value(key, ns, default); default is the sentinel when the
\* caller passes none
RequireConfigValue(key, ns, default) ==
    /\ cfg' = ConfigCall("require_config_value", key, ns, default,
                         require_config_value(store.root, key, ns, default))
    /\ UNCHANGED <<registry, nextId, declared, env, script, call, handed, store>>

\* get_config_value(key, ns, default); default is None when the caller
\* passes none
GetConfigValue(key, ns, default) ==
    /\ cfg' = ConfigCall("get_config_value", key, ns, default,
                         get_config_value(store.root, key, ns, default))
    /\ UNCHANGED <<registry, nextId, declared, env, script, call, handed, store>>

InitConfig ==
    /\ EnvIdle
    /\ ScriptIdle
    /\ store \in {[loaded |-> TRUE, root |-> r] : r \in Stores}
    /\ cfg = NoCall

NextConfig ==
    \/ \E key \in LookupKeys, ns \in LookupNamespaces,
          default \in CallerDefaults \cup {GET_CONFIG_VALUE_NONE} :
           RequireConfigValue(key, ns, default)
    \/ \E key \in LookupKeys, ns \in LookupNamespaces, default \in CallerDefaults :
           GetConfigValue(key, ns, default)

\* configuration lookups on a configuration that does not change
SpecConfig == InitConfig /\ [][NextConfig]_vars

(***************************************************************************)
(* Detection: the claims checked under Spec.                               *)
(***************************************************************************)
Detected == env # NoCall

\* the slots of the registry the call iterated over that are present
PresentSlots == {i \in 1..Len(env.seen) : is_present(env.seen[i].cls, env.hostname)}

\* no registered class has a hostname pattern that matches the host
NoPatternMatches ==
    \A i \in 1..Len(env.seen) :
        LET p == GetAttr(env.seen[i].cls, "hostname_pattern")
        IN  p = None \/ ~re_match(p.v, env.hostname)

\* C1 (as claimed): on a host that matches no registered pattern,
\* get_environment() returns the fallback UnknownEnvironment, which is present.
C1_FallbackIsUnknown ==
    (Detected /\ ~env.test /\ NoPatternMatches) =>
        /\ env.result = UnknownEnvironment
        /\ is_present(env.result, env.hostname)

C12_TestReturnsTestEnvironment ==
    (Detected /\ env.test) => env.result = TestEnvironment

\* the classes of the registry the call iterated over
SeenClasses == {env.seen[i].cls : i \in 1..Len(env.seen)}

\* C16: every call of get_environment returns one class, a class of the
\* registry or the fallback UnknownEnvironment, and the class returned is
\* present on the host.
C16_DetectionTotalAndSound ==
    Detected =>
        /\ env.result \in SeenClasses \cup {UnknownEnvironment}
        /\ is_present(env.result, env.hostname)

\* C16 witness: no class of the registry is present on the host, the
\* module's UnknownEnvironment and TestEnvironment having been replaced by
\* user classes, and the call returned the fallback.
C16_Witness ==
    /\ Detected
    /\ PresentSlots = {}
    /\ UnknownEnvironment \notin SeenClasses
    /\ env.result = UnknownEnvironment

\* the class keeps the is_present of ComputeEnvironment
KeepsDefaultIsPresent(cls) ==
    GetAttr(cls, "is_present") = Method("ComputeEnvironment.is_present")

\* the class has no detection rule: its hostname_pattern is None
NullPattern(cls) == GetAttr(cls, "hostname_pattern") = None

\* the pattern matches the name from its first character on; the name may
\* go on after the match
MatchesFromStart(pattern, name) ==
    /\ Len(pattern) <= Len(name)
    /\ \A i \in 1..Len(pattern) : pattern[i] = "." \/ pattern[i] = name[i]

\* C17: a class with a null pattern that keeps the default is_present is
\* never returned by get_environment, wherever it stands in the registry;
\* the default is_present of a registered class is true exactly when its
\* pattern is not null and matches the host name from its start.
C17_NullPatternNeverDetected ==
    Detected =>
        /\ ~(NullPattern(env.result) /\ KeepsDefaultIsPresent(env.result))
        /\ \A cls \in SeenClasses :
               KeepsDefaultIsPresent(cls) =>
                   (is_present(cls, env.hostname) <=>
                       /\ ~NullPattern(cls)
                       /\ MatchesFromStart(GetAttr(cls, "hostname_pattern").v, env.hostname))

\* C17 witness: a user class with a null pattern and the default is_present
\* holds the last slot of the registry, the first the scan visits, and
\* the call returned a class of an earlier slot whose pattern matches only
\* the start of the host name.
C17_Witness ==
    LET last == env.seen[Len(env.seen)].cls
    IN  /\ Detected
        /\ last \notin ProgramClasses
        /\ NullPattern(last)
        /\ KeepsDefaultIsPresent(last)
        /\ env.result \in SeenClasses
        /\ KeepsDefaultIsPresent(env.result)
        /\ Len(GetAttr(env.result, "hostname_pattern").v) < Len(env.hostname)

(***************************************************************************)
(* The registry across declarations: claims checked under Spec.            *)
(***************************************************************************)
\* the names of the registry's entries, in the order of the entries
Names(items) == [i \in 1..Len(items) |-> items[i].name]

\* the class whose class statement has just been executed
Declared == declared[Len(declared)]

\* C11: declaring a class under a name already in the registry replaces the
\* class stored under that name, keeps the name at its position, and leaves
\* every other entry and the order of the entries unchanged.
C11_DuplicateReplacesInPlace ==
    [][\A i \in 1..Len(registry.items) :
          (nextId' = nextId + 1 /\ registry.items[i].name = declared'[Len(declared')].name) =>
              /\ Len(registry'.items) = Len(registry.items)
              /\ Names(registry'.items) = Names(registry.items)
              /\ registry'.items[i].cls = declared'[Len(declared')]
              /\ registry'.items[i].cls # registry.items[i].cls
              /\ \A j \in 1..Len(registry.items) :
                     j # i => registry'.items[j] = registry.items[j]]_vars

\* C11 witness: TestEnvironment was declared again after a user class of a
\* new name; the new class is held at TestEnvironment's slot, ahead of the
\* user class declared before it.
C11_Witness ==
    LET last == Len(registry.items)
    IN  /\ registry.items[2].name = "TestEnvironment"
        /\ registry.items[2].cls = Declared
        /\ registry.items[2].cls # TestEnvironment
        /\ last > 2
        /\ registry.items[last].cls \notin ProgramClasses
        /\ registry.items[last].cls.id < Declared.id

\* C15 (as claimed): across declarations an entry of the registry is never
\* removed and the class stored under its name is never replaced.
C15_NeverRemovedNorReplaced ==
    [][\A i \in 1..Len(registry.items) :
          \E j \in 1..Len(registry'.items) : registry'.items[j] = registry.items[i]]_vars

\* C15 (amended): across declarations no entry is removed or moved: a name
\* once registered stays at its position, and the class stored under it
\* changes only when a class of that same name is declared, which then
\* replaces it.
C15_NeverRemovedReplacedBySameNameOnly ==
    [][\A i \in 1..Len(registry.items) :
          /\ i <= Len(registry'.items)
          /\ registry'.items[i].name = registry.items[i].name
          /\ registry'.items[i].cls # registry.items[i].cls =>
                 /\ nextId' = nextId + 1
                 /\ registry'.items[i].cls = declared'[Len(declared')]
                 /\ declared'[Len(declared')].name = registry.items[i].name]_vars

\* C15 witness: a user class named UnknownEnvironment has replaced the
\* module's UnknownEnvironment in the first slot; the six other entries
\* are the module's.
C15_Witness ==
    /\ Len(registry.items) = Len(ModuleClasses) - 1
    /\ registry.items[1].name = "UnknownEnvironment"
    /\ registry.items[1].cls # UnknownEnvironment
    /\ registry.items[1].cls.id >= Len(ModuleClasses)
    /\ \A i \in 2..Len(registry.items) : registry.items[i].cls = ModuleClasses[i + 1]

\* the names in a list of classes, each once, in the order of its first
\* occurrence
RECURSIVE FirstNames(_)
FirstNames(classes) ==
    IF classes = <<>> THEN <<>>
    ELSE LET n == Len(classes)
             earlier == FirstNames(SubSeq(classes, 1, n - 1))
         IN  IF \E k \in 1..(n - 1) : classes[k].name = classes[n].name
             THEN earlier ELSE Append(earlier, classes[n].name)

\* the subclasses declared so far: every class statement but the root's
DeclaredSubclasses == SelectSeq(declared, LAMBDA c : c # ComputeEnvironment)

\* the class declared last under a name
LastDeclared(name) ==
    LET subs == DeclaredSubclasses
        k == CHOOSE k \in 1..Len(subs) :
                 /\ subs[k].name = name
                 /\ \A m \in (k + 1)..Len(subs) : subs[m].name # name
    IN  subs[k]

\* C19: the root class ComputeEnvironment has created the registry and is
\* not an entry of it; the registry holds the declared subclasses, one per
\* name, keyed by class name in the order the names were first declared;
\* get_environment never returns the root class.
C19_RootCreatesRegistryOnly ==
    /\ registry.created
    /\ \A i \in 1..Len(registry.items) :
           /\ registry.items[i].cls # ComputeEnvironment
           /\ registry.items[i].name = registry.items[i].cls.name
           /\ registry.items[i].cls = LastDeclared(registry.items[i].name)
    /\ Names(registry.items) = FirstNames(DeclaredSubclasses)
    /\ Detected => env.result # ComputeEnvironment

\* C19 witness: user code declared two classes named A; the registry holds
\* the module's seven subclasses and then the second A, and get_environment
\* returned that class.
C19_Witness ==
    /\ Len(declared) = Len(ModuleClasses) + 2
    /\ Len(registry.items) = Len(ModuleClasses)
    /\ registry.items[Len(ModuleClasses)].name = "A"
    /\ registry.items[Len(ModuleClasses)].cls = Declared
    /\ Detected
    /\ env.result = Declared

(***************************************************************************)
(* Script assembly: the claims checked under SpecScript.                   *)
(***************************************************************************)
\* the line the claimed wrapping gives: the parallel launcher first, the
\* background suffix last
WrappedLine(cmd, np, bg) ==
    LET launched == IF np > 1 THEN mpirun_cmd(cmd, np) ELSE cmd
    IN  IF bg THEN launched \o <<" ", "&">> ELSE launched

\* C3 (as claimed): write_cmd(cmd, np, bg) appends exactly one line, the
\* command wrapped by the parent's mpi_cmd when np > 1 and then by bg when
\* bg is true, followed by a single '\n'.
C3_WriteCmdAppendsWrappedLine ==
    call.op = "write_cmd" =>
        script.buf = call.args.before.buf
                        \o WrappedLine(call.args.cmd, call.args.np, call.args.bg)
                        \o <<"\n">>

\* C4 (as claimed): on every class the program defines, script() and every
\* writeline and write_cmd with np >= 1 that follows end without an error.
C4_AssemblyNeverRaises ==
    (script.open /\ script.parent \in ProgramClasses
        /\ call.op \in {"script", "writeline", "write_cmd"}) =>
        call.exc = "none"

\* the text of a script cut into its lines, each without its '\n'
RECURSIVE SplitLines(_, _)
SplitLines(buf, line) ==
    IF buf = <<>> THEN (IF line = <<>> THEN <<>> ELSE <<line>>)
    ELSE IF Head(buf) = "\n" THEN <<line>> \o SplitLines(Tail(buf), <<>>)
    ELSE SplitLines(Tail(buf), Append(line, Head(buf)))

Options(kwargs) == {kwargs[i] : i \in 1..Len(kwargs)}

IsTestScriptCall ==
    /\ call.op = "script"
    /\ GetAttr(call.args.cls, "script") = Method("TestEnvironment.script")

\* C10: TestEnvironment.script called with options returns a script of exactly
\* one line '#TEST key=value' per option, the keys in ascending
\* lexicographic order, and every order of passing the same options gives
\* the same content.
C10_TestOptionsSorted ==
    IsTestScriptCall =>
        LET kwargs == call.args.kwargs
            lines == SplitLines(script.buf, <<>>)
        IN  /\ Len(lines) = Len(kwargs)
            /\ kwargs = <<>> \/ script.buf[Len(script.buf)] = "\n"
            /\ \A o \in Options(kwargs) :
                   Cardinality({i \in 1..Len(lines) : lines[i] = test_line(o[1], o[2])}) = 1
            /\ \A i, j \in 1..Len(lines) : \A o1, o2 \in Options(kwargs) :
                   (i < j /\ lines[i] = test_line(o1[1], o1[2])
                          /\ lines[j] = test_line(o2[1], o2[2])) => str_lt(o1[1], o2[1])
            /\ \A other \in Kwargs :
                   Options(other) = Options(kwargs) =>
                       script_of(call.args.cls, other).buf = script.buf

\* C10 witness: two options passed in descending order of key, written in
\* ascending order.
C10_Witness ==
    /\ IsTestScriptCall
    /\ Len(call.args.kwargs) = 2
    /\ str_lt(call.args.kwargs[2][1], call.args.kwargs[1][1])
    /\ SplitLines(script.buf, <<>>)[1]
           = test_line(call.args.kwargs[2][1], call.args.kwargs[2][2])

\* the lines of a list joined into one text, each followed by one '\n'
RECURSIVE Joined(_)
Joined(lines) ==
    IF lines = <<>> THEN <<>> ELSE Head(lines) \o <<"\n">> \o Joined(Tail(lines))

IsPrefix(s, t) == Len(s) <= Len(t) /\ SubSeq(t, 1, Len(s)) = s

\* C13: while a script has not been rewound, its content is the lines
\* written so far, in call order, each followed by one '\n'; every writeline
\* and write_cmd leaves the earlier content as a prefix and, when it writes,
\* extends it by exactly the written line and one '\n'.
C13_AppendOnlyUntilRewound ==
    (script.open /\ script.submits = 0) =>
        /\ script.buf = Joined(script.log)
        /\ call.op \in {"writeline", "write_cmd"} =>
               LET before == call.args.before
               IN  /\ IsPrefix(before.buf, script.buf)
                   /\ call.exc = "none" =>
                          /\ Len(script.log) = Len(before.log) + 1
                          /\ script.buf = before.buf \o script.log[Len(script.log)] \o <<"\n">>
                   /\ call.exc # "none" => script.buf = before.buf
        /\ call.op = "writeline" => script.log[Len(script.log)] = call.args.line

\* C13 witness: a write_cmd followed a writeline on the same script and the
\* content is the first line, then the command line.
C13_Witness ==
    /\ script.open
    /\ call.op = "write_cmd"
    /\ call.exc = "none"
    /\ call.args.before.buf = <<"l", "\n">>
    /\ script.buf = <<"l", "\n", "r", " ", "&", "\n">>

(***************************************************************************)
(* Submission: the claims checked under SpecSubmit.                        *)
(***************************************************************************)
Submitted == call.op = "submit"

\* the driver's submit was called during the last call
DriverInvoked == Len(handed) = call.args.handoffs + 1

\* the class declares no scheduler_type, or declares it None
SchedulerUndefined(cls) ==
    \/ cls \in {ComputeEnvironment, UnknownEnvironment, CPUEnvironment, GPUEnvironment}
    \/ GetAttr(cls, "scheduler_type") \in {Missing, None}

\* C5: submit on a class whose scheduler_type is undefined or None ends in
\* the missing-scheduler error, and no driver's submit is called.
C5_NoSchedulerNoSubmit ==
    (Submitted /\ SchedulerUndefined(call.args.cls)) =>
        /\ call.exc = MissingScheduler
        /\ Len(handed) = call.args.handoffs

\* C5 witness: UnknownEnvironment.submit of a script with content ended in
\* the error.
C5_Witness ==
    /\ Submitted
    /\ call.args.cls = UnknownEnvironment
    /\ script.buf # <<>>
    /\ call.exc = MissingScheduler

\* C6: with a scheduler, submit returns JobStatus.submitted exactly when the
\* driver's submit returned a true value; when the driver returned a false
\* value submit returns None and raises nothing.
C6_SubmittedIffDriverTrue ==
    (Submitted /\ DriverInvoked) =>
        LET d == call.args.driver
        IN  /\ call.ret = submitted <=>
                   (d.exc = "none" /\ d.ret \in {True, Str(<<"7">>)})
            /\ (d.exc = "none" /\ d.ret \in {False, None, Str(<<>>)}) =>
                   (call.ret = None /\ call.exc = "none")

\* C6 witness: the driver declined and submit returned None without raising.
C6_Witness ==
    /\ Submitted
    /\ DriverInvoked
    /\ call.args.driver.exc = "none"
    /\ call.args.driver.ret = False
    /\ call.ret = None
    /\ call.exc = "none"

\* C7: whenever submit hands the script to a driver the cursor is at 0 and
\* the driver is given the whole content; two hand-offs with no write
\* between them give the same content.
C7_RewoundAtHandoff ==
    /\ \A i \in 1..Len(handed) : handed[i].pos = 0
    /\ \A i, j \in 1..Len(handed) :
           handed[i].writes = handed[j].writes => handed[i].content = handed[j].content
    /\ \A i \in 1..Len(handed) :
           handed[i].writes = script.writes => handed[i].content = script.buf

\* C7 witness: a script with content was handed over twice with no write in
\* between, the first driver having read it to its end.
C7_Witness ==
    /\ Len(handed) = 2
    /\ handed[1].writes = handed[2].writes
    /\ handed[1].reads
    /\ handed[2].content # <<>>

\* the last call was a submit that ended in the missing-scheduler error, or
\* whose driver did not read the script
SubmitLeftUnread ==
    /\ Submitted
    /\ \/ call.exc = MissingScheduler
       \/ DriverInvoked /\ ~call.args.driver.reads

\* the last call was a writeline on a script that a submit had left rewound
WroteAfterSubmit ==
    /\ call.op = "writeline"
    /\ call.args.before.submits > 0
    /\ call.args.before.pos = 0

\* C18: submit rewinds the script before it obtains the scheduler driver: a
\* submit that ends in the missing-scheduler error, or whose driver does not
\* read the script, leaves the content unchanged and the cursor at 0; a
\* writeline(t) that follows overwrites the first len(t) + 1 characters of
\* the script instead of appending after its content.
C18_SubmitLeavesScriptRewound ==
    /\ SubmitLeftUnread =>
           /\ script.buf = call.args.before.buf
           /\ script.pos = 0
    /\ WroteAfterSubmit =>
           LET t == call.args.line
               old == call.args.before.buf
           IN  /\ script.buf = t \o <<"\n">> \o SubSeq(old, Len(t) + 2, Len(old))
               /\ script.pos = Len(t) + 1
               /\ old # <<>> => script.buf # old \o t \o <<"\n">>

\* C18 witness: UnknownEnvironment.submit failed on a script holding one
\* line, and the writeline that followed replaced the start of that line;
\* the script did not grow.
C18_Witness ==
    /\ WroteAfterSubmit
    /\ script.parent = UnknownEnvironment
    /\ call.args.before.buf = <<"l", "\n">>
    /\ call.args.line = <<>>
    /\ script.buf = <<"\n", "\n">>

(***************************************************************************)
(* Configuration: the claims checked under SpecConfig.                     *)
(***************************************************************************)
\* the flow section of the store, if it has one
HasFlow == "flow" \in DOMAIN Items(store.root)

FlowItems == Items(Items(store.root)["flow"])

\* the namespace of the last call is a section of the store
HasNamespace ==
    /\ HasFlow
    /\ cfg.ns.v[1] \in DOMAIN FlowItems
    /\ FlowItems[cfg.ns.v[1]].t = "section"

\* the name of the namespace of the last call is held by a scalar
NamespaceIsScalar ==
    /\ cfg.ns # None
    /\ HasFlow
    /\ cfg.ns.v[1] \in DOMAIN FlowItems
    /\ FlowItems[cfg.ns.v[1]].t # "section"

\* the key of the last call is stored under its namespace
KeyPresent ==
    IF cfg.ns = None THEN HasFlow /\ cfg.key \in DOMAIN FlowItems
    ELSE HasNamespace /\ cfg.key \in DOMAIN Items(FlowItems[cfg.ns.v[1]])

\* the key, its namespace or the flow section is absent
KeyAbsent == ~KeyPresent /\ ~NamespaceIsScalar

StoredUnderKey ==
    IF cfg.ns = None THEN FlowItems[cfg.key] ELSE Items(FlowItems[cfg.ns.v[1]])[cfg.key]

\* a recognized key looked up by get_config_value without namespace and
\* without default, on a store that does not hold it
RecognizedKeyAbsent ==
    /\ cfg.op = "get_config_value"
    /\ cfg.key \in DOMAIN FLOW_CONFIG_DEFAULTS
    /\ cfg.ns = None
    /\ cfg.default = None
    /\ KeyAbsent

\* C8 (as claimed): get_config_value of a recognized key that the store does
\* not hold returns the key's documented default.
C8_AbsentKeyGivesDocumentedDefault ==
    RecognizedKeyAbsent => cfg.ret = FLOW_CONFIG_DEFAULTS[cfg.key]

\* C8 (amended): get_config_value of a recognized key that the store does
\* not hold returns None, for each of the five keys; the table of documented
\* defaults is not consulted.
C8_AbsentKeyGivesNone ==
    RecognizedKeyAbsent => (cfg.ret = None /\ cfg.exc = "none")

\* C8 witness: get_config_value("status_parallelization") on a store without
\* a flow section returned None.
C8_Witness ==
    /\ RecognizedKeyAbsent
    /\ ~HasFlow
    /\ cfg.key = "status_parallelization"
    /\ cfg.ret = None

QualifiedName ==
    [k \in LookupKeys |->
        [n \in {"", "cluster", "status_parallelization"} |->
            IF n = "" THEN "flow." \o k ELSE "flow." \o n \o "." \o k]]

====
